---- MODULE Spec2Model ----
(***************************************************************************)
(* Model of streamlitsql.py: a Streamlit script that downloads a SQL       *)
(* script, builds an in-memory SQLite store from it, loads one LEFT JOIN   *)
(* into a DataFrame, cleans it, aggregates it and renders the result.      *)
(* The script is re-run top to bottom on every render; three of its        *)
(* functions are memoized by Streamlit decorators.                         *)
(*                                                                         *)
(* Numbers are integers (money and discounts in whole units).  A nullable  *)
(* cell is a sequence of length at most one: <<>> is NULL/NaN, <<x>> is x. *)
(***************************************************************************)
EXTENDS Integers, Sequences, FiniteSets, TLC

\* ------------------------------------------------------------------ bounds
MaxRows == 6
MaxRenders == 3

\* ------------------------------------------------------- program constants
TTL == 300
TopN == 5
HoursPerDay == 24
NoConn == 0
None == "None"

\* ------------------------------------------------------------------ cells
NULL == <<>>
Cell(x) == <<x>>
IsNull(c) == c = NULL

\* Series.fillna(d): NULL becomes d, anything else is kept.
fillna(c, d) == IF IsNull(c) THEN Cell(d) ELSE c

\* SQL IFNULL(c, d)
IFNULL(c, d) == IF IsNull(c) THEN Cell(d) ELSE c

\* Arithmetic of SQL and of pandas: NULL/NaN propagates.
NMul(a, b) == IF IsNull(a) \/ IsNull(b) THEN NULL ELSE Cell(a[1] * b[1])
NSub(a, b) == IF IsNull(a) \/ IsNull(b) THEN NULL ELSE Cell(a[1] - b[1])

Min(a, b) == IF a <= b THEN a ELSE b
Range(s) == {s[i] : i \in 1..Len(s)}

\* ----------------------------------------------------------- the two tables
\* produtos(id_produto, nome_produto, categoria, preco_unitario)
Produto(id, nome, cat, preco) ==
  [id_produto |-> id, nome_produto |-> nome, categoria |-> cat, preco_unitario |-> preco]

\* vendas(id_venda, data_venda, id_produto, quantidade, desconto); data_venda
\* is the text of a date and time, kept as its day number and its hour.
Venda(id, dia, hora, prod, qtd, desc) ==
  [id_venda |-> id, data_venda |-> [dia |-> dia, hora |-> hora],
   id_produto |-> prod, quantidade |-> qtd, desconto |-> desc]

Catalogo == <<
  Produto(1, Cell("Notebook"),   Cell("Informatica"), Cell(30)),
  Produto(2, Cell("Mouse"),      Cell("Acessorios"),  Cell(5)),
  Produto(3, Cell("Smartphone"), Cell("Telefonia"),   Cell(20)),
  Produto(4, Cell("Teclado"),    NULL,                Cell(10)),
  Produto(5, Cell("Monitor"),    Cell("Informatica"), NULL),
  Produto(6, Cell("Fone"),       Cell("Telefonia"),   Cell(6)),
  Produto(7, Cell("Cabo"),       Cell("Acessorios"),  Cell(2)) >>

\* Sales the tables are drawn from; id_produto 9 is in no catalogue.
VendasPool == <<
  Venda(1, 3, 10, 1, Cell(1), NULL),
  Venda(2, 1,  9, 2, Cell(4), Cell(1)),
  Venda(3, 2, 15, 3, Cell(2), Cell(2)),
  Venda(4, 1, 18, 9, Cell(3), Cell(1)),
  Venda(5, 4, 11, 4, Cell(2), NULL),
  Venda(6, 5, 12, 5, Cell(1), Cell(0)),
  Venda(7, 6, 13, 6, Cell(5), NULL),
  Venda(8, 7, 14, 7, Cell(6), Cell(0)),
  Venda(9, 2,  8, 1, Cell(1), Cell(3)) >>

RECURSIVE Pick(_, _, _)
\* The rows of pool whose index is in I, in the pool's order, from index i on.
Pick(pool, I, i) ==
  IF i > Len(pool) THEN <<>>
  ELSE (IF i \in I THEN <<pool[i]>> ELSE <<>>) \o Pick(pool, I, i + 1)

\* Every vendas table of at most MaxRows rows drawn from the pool.
VendasTables ==
  {Pick(VendasPool, I, 1) :
     I \in {J \in SUBSET (1..Len(VendasPool)) : Cardinality(J) <= MaxRows}}

\* ------------------------------------------------------------ query_join
Columns == {"id_venda", "data_venda", "nome_produto", "categoria",
            "quantidade", "preco_unitario", "desconto", "valor_total"}

\* One result row of the join: a sale with a matching product.
JoinRow(v, p) ==
  [id_venda |-> v.id_venda, data_venda |-> v.data_venda,
   nome_produto |-> p.nome_produto, categoria |-> p.categoria,
   quantidade |-> v.quantidade, preco_unitario |-> p.preco_unitario,
   desconto |-> v.desconto,
   valor_total |-> NMul(v.quantidade,
                        NMul(p.preco_unitario, NSub(Cell(1), IFNULL(v.desconto, 0))))]

\* LEFT JOIN with no match: the product's columns are NULL.
NoProduto == [id_produto |-> 0, nome_produto |-> NULL, categoria |-> NULL,
              preco_unitario |-> NULL]

RECURSIVE LeftJoin(_, _)
LeftJoin(vs, ps) ==
  IF vs = <<>> THEN <<>>
  ELSE LET v == Head(vs)
           m == SelectSeq(ps, LAMBDA p : p.id_produto = v.id_produto)
       IN  (IF m = <<>> THEN <<JoinRow(v, NoProduto)>>
            ELSE [i \in 1..Len(m) |-> JoinRow(v, m[i])]) \o LeftJoin(Tail(vs), ps)

query_join(tables) == LeftJoin(tables.vendas, tables.produtos)

\* pd.DataFrame(): no columns, no rows.
EmptyDataFrame == [columns |-> {}, rows |-> <<>>]

\* --------------------------------------------------------- tratar_dados
\* pd.to_datetime: the text of a date and time becomes a timestamp (in hours).
to_datetime(t) == t.dia * HoursPerDay + t.hora

\* Mutant of dt_date: the timestamp itself, its hour kept.
dt_date_Timestamp(ts) == ts

\* Series.dt.date: the calendar date of a timestamp.
dt_date(ts) == ts \div HoursPerDay

\* Mutant of TratarLinha: step 1 (the discount default) left out.
TratarLinha_SemDesconto(r) ==
  LET r2 == [r  EXCEPT !.preco_unitario = fillna(@, 0)]
      r3 == [r2 EXCEPT !.categoria = fillna(@, "Outros")]
      r4 == [r3 EXCEPT !.nome_produto = fillna(@, "Produto Desconhecido")]
      r5 == [r4 EXCEPT !.valor_total =
                          NMul(r4.quantidade, NSub(r4.preco_unitario, r4.desconto))]
  IN  [r5 EXCEPT !.data_venda = to_datetime(@)]

\* Mutant of TratarLinha: step 3 (the category default) left out.
TratarLinha_SemCategoria(r) ==
  LET r1 == [r  EXCEPT !.desconto = fillna(@, 0)]
      r2 == [r1 EXCEPT !.preco_unitario = fillna(@, 0)]
      r4 == [r2 EXCEPT !.nome_produto = fillna(@, "Produto Desconhecido")]
      r5 == [r4 EXCEPT !.valor_total =
                          NMul(r4.quantidade, NSub(r4.preco_unitario, r4.desconto))]
  IN  [r5 EXCEPT !.data_venda = to_datetime(@)]

\* Mutant of TratarLinha: step 5 recomputes the total with the query's formula.
TratarLinha_Multiplicativo(r) ==
  LET r1 == [r  EXCEPT !.desconto = fillna(@, 0)]
      r2 == [r1 EXCEPT !.preco_unitario = fillna(@, 0)]
      r3 == [r2 EXCEPT !.categoria = fillna(@, "Outros")]
      r4 == [r3 EXCEPT !.nome_produto = fillna(@, "Produto Desconhecido")]
      r5 == [r4 EXCEPT !.valor_total =
                          NMul(r4.quantidade,
                               NMul(r4.preco_unitario, NSub(Cell(1), r4.desconto)))]
  IN  [r5 EXCEPT !.data_venda = to_datetime(@)]

\* Steps 1-6 of tratar_dados on one row (the column assignments act row-wise).
TratarLinha(r) ==
  LET r1 == [r  EXCEPT !.desconto = fillna(@, 0)]
      r2 == [r1 EXCEPT !.preco_unitario = fillna(@, 0)]
      r3 == [r2 EXCEPT !.categoria = fillna(@, "Outros")]
      r4 == [r3 EXCEPT !.nome_produto = fillna(@, "Produto Desconhecido")]
      r5 == [r4 EXCEPT !.valor_total =
                          NMul(r4.quantidade, NSub(r4.preco_unitario, r4.desconto))]
  IN  [r5 EXCEPT !.data_venda = to_datetime(@)]

\* df['desconto'] on a frame without that column raises KeyError.
KeyError(df, col) == col \notin df.columns

tratar_dados(df) ==
  [columns |-> df.columns, rows |-> [i \in 1..Len(df.rows) |-> TratarLinha(df.rows[i])]]

\* ------------------------------------------------------ calcular_metricas
RECURSIVE SumCol(_, _)
\* Series.sum(): the sum of the non-null cells of a column (0 when there is none).
SumCol(rows, col) ==
  IF rows = <<>> THEN 0
  ELSE (IF IsNull(Head(rows)[col]) THEN 0 ELSE Head(rows)[col][1])
       + SumCol(Tail(rows), col)

RECURSIVE Where(_, _, _)
\* The rows whose key (keys[i] is the key of rows[i]) is k, in order.
Where(rows, keys, k) ==
  IF rows = <<>> THEN <<>>
  ELSE (IF Head(keys) = k THEN <<Head(rows)>> ELSE <<>>)
       \o Where(Tail(rows), Tail(keys), k)

\* df.groupby(keys)[valcol].sum().reset_index(): one row per non-null key (groupby
\* drops the rows whose key is null), holding the key and the sum of valcol.  The
\* rows are returned as a set: every use sorts them next.
GroupBySum(rows, keys, keycol, valcol) ==
  {(keycol :> k[1]) @@ (valcol :> SumCol(Where(rows, keys, k), valcol)) :
     k \in Range(keys) \ {NULL}}

RECURSIVE SortValues(_, _, _)
\* sort_values(by, ascending): the default sort is not stable, so rows with equal
\* keys may come out in any order; this is the set of orders it can produce.
SortValues(S, by, ascending) ==
  IF S = {} THEN {<<>>}
  ELSE LET first == {x \in S : \A y \in S :
                        IF ascending THEN x[by] <= y[by] ELSE x[by] >= y[by]}
       IN  UNION {{<<x>> \o s : s \in SortValues(S \ {x}, by, ascending)} : x \in first}

\* Mutant of head: no limit on the number of rows.
head_SemLimite(frame) == frame

\* .head(5)
head(frame) == SubSeq(frame, 1, Min(TopN, Len(frame)))

PorCategoria(df) ==
  GroupBySum(df.rows, [i \in 1..Len(df.rows) |-> df.rows[i].categoria],
             "categoria", "valor_total")

PorProduto(df) ==
  GroupBySum(df.rows, [i \in 1..Len(df.rows) |-> df.rows[i].nome_produto],
             "nome_produto", "quantidade")

PorDia(df) ==
  GroupBySum(df.rows, [i \in 1..Len(df.rows) |-> Cell(dt_date(df.rows[i].data_venda))],
             "data_venda", "valor_total")

\* The bundles calcular_metricas can return for df (one per order of the ties).
calcular_metricas(df) ==
  {[total_faturamento |-> SumCol(df.rows, "valor_total"),
    total_produtos_vendidos |-> SumCol(df.rows, "quantidade"),
    faturamento_por_categoria |-> cat,
    produtos_mais_vendidos |-> head(prod),
    dias_maior_venda |-> head(ft[2]),
    faturamento_por_dia |-> ft[1]] :
     cat \in SortValues(PorCategoria(df), "valor_total", FALSE),
     prod \in SortValues(PorProduto(df), "quantidade", FALSE),
     ft \in UNION {{<<dia, top>> : top \in SortValues(Range(dia), "valor_total", FALSE)} :
                     dia \in SortValues(PorDia(df), "data_venda", TRUE)}}

NoMetricas ==
  [total_faturamento |-> 0, total_produtos_vendidos |-> 0,
   faturamento_por_categoria |-> <<>>, produtos_mais_vendidos |-> <<>>,
   dias_maior_venda |-> <<>>, faturamento_por_dia |-> <<>>]

\* ---------------------------------------------------------------- scripts
\* What the remote URL can serve: two scripts with different sales, a script
\* with an empty vendas table, a script that creates neither table, and an HTML
\* error page (not SQL).
Scripts == {"vendas_a", "vendas_b", "vendas_vazia", "sem_tabelas", "html"}

NoTables == [has_tables |-> FALSE, vendas |-> <<>>, produtos |-> <<>>]
Tables(vs) == [has_tables |-> TRUE, vendas |-> vs, produtos |-> Catalogo]

\* cursor.executescript(script): the tables the script leaves in the store, or
\* a sqlite3.Error.
executescript(script) ==
  CASE script = "vendas_a"     -> [ok |-> TRUE, tables |-> Tables(Pick(VendasPool, {1, 2, 4}, 1))]
    [] script = "vendas_b"     -> [ok |-> TRUE, tables |-> Tables(Pick(VendasPool, {3, 5, 9}, 1))]
    [] script = "vendas_vazia" -> [ok |-> TRUE, tables |-> Tables(<<>>)]
    [] script = "sem_tabelas"  -> [ok |-> TRUE, tables |-> NoTables]
    [] OTHER                   -> [ok |-> FALSE, tables |-> NoTables]

\* pd.read_sql_query(query_join, conn): the rows, or an exception when the
\* connection is closed or a table of the query does not exist.
read_sql_query(store) ==
  IF store.state = "open" /\ store.tables.has_tables
  THEN [raised |-> FALSE, df |-> [columns |-> Columns, rows |-> query_join(store.tables)]]
  ELSE [raised |-> TRUE, df |-> EmptyDataFrame]

\* Mutant of BuilderKey: the script's content is part of the key.
BuilderKey_PorConteudo(script) == script

\* ------------------------------------------------------- memoization keys
\* Streamlit builds a cache key from the arguments whose parameter name does
\* not start with an underscore.  criar_conexao_e_popular(_sql_script) has no
\* such parameter: every call has the same key.
BuilderKey(script) == "criar_conexao_e_popular"

\* carregar_dados_no_pandas(_conn, query): the key is the query text.
LoaderKey(c, query) == query

\* ------------------------------------------------------------------ state
VARIABLES
  pc,              \* where the running render is; "idle" between renders
  renders,         \* renders started so far
  fetch_cache,     \* st.cache_data(ttl=300) of carregar_dados_sql
  resource_cache,  \* st.cache_resource of criar_conexao_e_popular: key -> entry
  data_cache,      \* st.cache_data of carregar_dados_no_pandas: key -> entry
  stores,          \* the sqlite3 connections opened so far (and by which render)
  sql_script, conn, df_bruto, df_limpo, metricas,   \* the script's globals
  reported,        \* the st.error messages shown in this render
  outcome,         \* how the last render ended
  builder_log      \* history: the calls of criar_conexao_e_popular

vars == <<pc, renders, fetch_cache, resource_cache, data_cache, stores, sql_script,
          conn, df_bruto, df_limpo, metricas, reported, outcome, builder_log>>

caches == <<fetch_cache, resource_cache, data_cache>>
globals == <<sql_script, conn, df_bruto, df_limpo, metricas>>

NoEntries == [k \in {} |-> 0]

Init ==
  /\ pc = "idle"
  /\ renders = 0
  /\ fetch_cache = [filled |-> FALSE, value |-> None, age |-> 0]
  /\ resource_cache = NoEntries
  /\ data_cache = NoEntries
  /\ stores = <<>>
  /\ sql_script = None
  /\ conn = NoConn
  /\ df_bruto = EmptyDataFrame
  /\ df_limpo = EmptyDataFrame
  /\ metricas = NoMetricas
  /\ reported = {}
  /\ outcome = "none"
  /\ builder_log = <<>>

\* The process after a build from a script whose vendas table is any table of
\* VendasTables, at the point where the render loads the dataset.
InitData ==
  /\ pc = "load"
  /\ renders = 1
  /\ fetch_cache = [filled |-> TRUE, value |-> "vendas_a", age |-> 0]
  /\ resource_cache = (BuilderKey("vendas_a") :> [value |-> 1, msgs |-> {}])
  /\ data_cache = NoEntries
  /\ \E vs \in VendasTables :
       stores = <<[state |-> "open", script |-> "vendas_a", render |-> 1,
                   tables |-> Tables(vs)]>>
  /\ sql_script = "vendas_a"
  /\ conn = 1
  /\ df_bruto = EmptyDataFrame
  /\ df_limpo = EmptyDataFrame
  /\ metricas = NoMetricas
  /\ reported = {}
  /\ outcome = "running"
  /\ builder_log = <<[arg |-> "vendas_a", ret |-> 1, ran |-> TRUE]>>

\* ---------------------------------------------------------------- actions
\* A user interaction re-runs the script from the top, in a fresh namespace.
Rerun ==
  /\ pc = "idle"
  /\ renders < MaxRenders
  /\ renders' = renders + 1
  /\ pc' = "fetch"
  /\ sql_script' = None
  /\ conn' = NoConn
  /\ df_bruto' = EmptyDataFrame
  /\ df_limpo' = EmptyDataFrame
  /\ metricas' = NoMetricas
  /\ reported' = {}
  /\ outcome' = "running"
  /\ UNCHANGED <<caches, stores, builder_log>>

\* Time passes between renders: the fetched script ages towards its ttl.
Tick ==
  /\ pc = "idle"
  /\ fetch_cache.filled
  /\ fetch_cache.age < TTL
  /\ fetch_cache' = [fetch_cache EXCEPT !.age = Min(@ + TTL \div 2, TTL)]
  /\ UNCHANGED <<pc, renders, resource_cache, data_cache, stores, globals, reported,
                 outcome, builder_log>>

\* sql_script = carregar_dados_sql(): the memoized text while it is younger than
\* the ttl, else an HTTP GET, which fails (None) or returns what the URL serves.
carregar_dados_sql ==
  /\ pc = "fetch"
  /\ IF fetch_cache.filled /\ fetch_cache.age < TTL
     THEN /\ sql_script' = fetch_cache.value
          /\ UNCHANGED fetch_cache
     ELSE \E r \in Scripts \cup {None} :
            /\ sql_script' = r
            /\ fetch_cache' = [filled |-> TRUE, value |-> r, age |-> 0]
  /\ reported' = reported \cup (IF sql_script' = None THEN {"download"} ELSE {})
  /\ pc' = "build"
  /\ UNCHANGED <<renders, resource_cache, data_cache, stores, conn, df_bruto, df_limpo,
                 metricas, outcome, builder_log>>

\* conn = criar_conexao_e_popular(sql_script): the memoized result when the key
\* has one (its messages are replayed), else the function's body, whose result
\* (None included) is memoized.
criar_conexao_e_popular ==
  /\ pc = "build"
  /\ LET k == BuilderKey(sql_script)
         ex == executescript(sql_script)
         ret == IF sql_script # None /\ ex.ok THEN Len(stores) + 1 ELSE NoConn
         msgs == IF sql_script # None /\ ~ex.ok THEN {"script"} ELSE {}
     IN  IF k \in DOMAIN resource_cache
         THEN /\ conn' = resource_cache[k].value
              /\ reported' = reported \cup resource_cache[k].msgs
              /\ builder_log' = Append(builder_log,
                                  [arg |-> sql_script, ret |-> conn', ran |-> FALSE])
              /\ UNCHANGED <<resource_cache, stores>>
         ELSE /\ stores' = IF sql_script = None THEN stores
                           ELSE Append(stores,
                                  [state |-> IF ex.ok THEN "open" ELSE "discarded",
                                   script |-> sql_script, render |-> renders,
                                   tables |-> ex.tables])
              /\ conn' = ret
              /\ reported' = reported \cup msgs
              /\ resource_cache' = (k :> [value |-> ret, msgs |-> msgs]) @@ resource_cache
              /\ builder_log' = Append(builder_log,
                                  [arg |-> sql_script, ret |-> ret, ran |-> TRUE])
  /\ pc' = "branch"
  /\ UNCHANGED <<renders, fetch_cache, data_cache, sql_script, df_bruto, df_limpo,
                 metricas, outcome>>

\* if conn: a connection, open or closed, is truthy; None ends the render with
\* nothing rendered.
if_conn ==
  /\ pc = "branch"
  /\ IF conn # NoConn
     THEN pc' = "load" /\ UNCHANGED outcome
     ELSE pc' = "idle" /\ outcome' = "nothing_rendered"
  /\ UNCHANGED <<renders, caches, stores, globals, reported, builder_log>>

\* df_bruto = carregar_dados_no_pandas(conn, query_join): the memoized frame
\* when the key has one, else the query's rows, or on any exception an error
\* message and pd.DataFrame(); the result is memoized either way.
carregar_dados_no_pandas ==
  /\ pc = "load"
  /\ LET k == LoaderKey(conn, "query_join")
         res == read_sql_query(stores[conn])
         msgs == IF res.raised THEN {"load"} ELSE {}
     IN  IF k \in DOMAIN data_cache
         THEN /\ df_bruto' = data_cache[k].value
              /\ reported' = reported \cup data_cache[k].msgs
              /\ UNCHANGED data_cache
         ELSE /\ df_bruto' = res.df
              /\ reported' = reported \cup msgs
              /\ data_cache' = (k :> [value |-> res.df, msgs |-> msgs]) @@ data_cache
  /\ pc' = "clean"
  /\ UNCHANGED <<renders, fetch_cache, resource_cache, stores, sql_script, conn,
                 df_limpo, metricas, outcome, builder_log>>

\* df_limpo = tratar_dados(df_bruto); an uncaught KeyError ends the render.
TratarDados ==
  /\ pc = "clean"
  /\ IF KeyError(df_bruto, "desconto")
     THEN pc' = "idle" /\ outcome' = "exception" /\ UNCHANGED df_limpo
     ELSE pc' = "metrics" /\ df_limpo' = tratar_dados(df_bruto) /\ UNCHANGED outcome
  /\ UNCHANGED <<renders, caches, stores, sql_script, conn, df_bruto, metricas,
                 reported, builder_log>>

\* metricas = calcular_metricas(df_limpo)
CalcularMetricas ==
  /\ pc = "metrics"
  /\ metricas' \in calcular_metricas(df_limpo)
  /\ pc' = "present"
  /\ UNCHANGED <<renders, caches, stores, sql_script, conn, df_bruto, df_limpo,
                 reported, outcome, builder_log>>

\* The metrics, the two top-5 tables, the two charts and the conclusions.
Exibir ==
  /\ pc = "present"
  /\ pc' = "close"
  /\ UNCHANGED <<renders, caches, stores, globals, reported, outcome, builder_log>>

\* conn.close(), then st.success.  Closing a closed connection is a no-op.  A
\* sqlite3 connection (check_same_thread is left at its default) raises
\* ProgrammingError when called from a thread other than the one that opened
\* it, and Streamlit may run a later render on another thread: for a connection
\* opened by an earlier render both outcomes are possible.
conn_close ==
  /\ pc = "close"
  /\ \E raises \in (IF stores[conn].render = renders THEN {FALSE} ELSE {FALSE, TRUE}) :
       IF raises
       THEN outcome' = "exception" /\ UNCHANGED stores
       ELSE outcome' = "success" /\ stores' = [stores EXCEPT ![conn].state = "closed"]
  /\ pc' = "idle"
  /\ UNCHANGED <<renders, caches, globals, reported, builder_log>>

Next ==
  \/ Rerun
  \/ Tick
  \/ carregar_dados_sql
  \/ criar_conexao_e_popular
  \/ if_conn
  \/ carregar_dados_no_pandas
  \/ TratarDados
  \/ CalcularMetricas
  \/ Exibir
  \/ conn_close

Spec == Init /\ [][Next]_vars

\* The load, clean and aggregate steps on every table of VendasTables.
NextData ==
  \/ carregar_dados_no_pandas
  \/ TratarDados
  \/ CalcularMetricas
  \/ Exibir
  \/ conn_close

SpecData == InitData /\ [][NextData]_vars

\* ================================================================ claims
Built == pc \in {"branch", "load", "clean", "metrics", "present", "close"}
Loaded == pc \in {"clean", "metrics", "present", "close"}
Cleaned == pc \in {"metrics", "present", "close"}
Computed == pc \in {"present", "close"}

Rows == 1..Len(df_bruto.rows)
Bruto(i) == df_bruto.rows[i]
Limpo(i) == df_limpo.rows[i]

\* The sum of a sequence of integers.
SeqSum(s) ==
  LET sum[n \in 0..Len(s)] == IF n = 0 THEN 0 ELSE s[n] + sum[n - 1]
  IN  sum[Len(s)]

Descending(t, col) == \A i, j \in 1..Len(t) : i < j => t[i][col] >= t[j][col]

\* A row of the join whose sale matched no product.
Unmatched(b) ==
  IsNull(b.nome_produto) /\ IsNull(b.categoria) /\ IsNull(b.preco_unitario)

\* quantity x (unit price - discount), a null price or discount counting as 0.
ExpectedTotal(b) ==
  b.quantidade[1] * ((IF IsNull(b.preco_unitario) THEN 0 ELSE b.preco_unitario[1])
                     - (IF IsNull(b.desconto) THEN 0 ELSE b.desconto[1]))

\* C1: every row of a sale that matched no product is cleaned to the default
\* product name, the default category and unit price 0, and its recomputed
\* total is 0, whatever its quantity and discount.
C1_UnmatchedContributesZero ==
  Cleaned =>
    \A i \in Rows :
      Unmatched(Bruto(i)) =>
        /\ Limpo(i).nome_produto = Cell("Produto Desconhecido")
        /\ Limpo(i).categoria = Cell("Outros")
        /\ Limpo(i).preco_unitario = Cell(0)
        /\ Limpo(i).valor_total = Cell(0)

\* C2: when the Query Loader fails it reports the error and returns an empty
\* dataset, and the rest of the render completes without raising.
C2_LoadFailureDegrades ==
  "load" \in reported =>
    /\ Loaded \/ pc = "idle"
    /\ df_bruto = EmptyDataFrame
    /\ outcome # "exception"

\* C3: in a render whose script is absent or fails to execute, the Dataset
\* Builder returns no connection and the render does none of the load, clean,
\* metrics, chart and close steps; an absent script opens no store.
C3_FailedBuildSkipsRender ==
  /\ (Built \/ (pc = "idle" /\ renders > 0)) /\
     (sql_script = None \/ ~executescript(sql_script).ok)
       => /\ conn = NoConn
          /\ pc \in {"branch", "idle"}
          /\ outcome \in {"running", "nothing_rendered"}
  /\ Len(stores) =
       Cardinality({i \in 1..Len(builder_log) :
                      builder_log[i].ran /\ builder_log[i].arg # None})

\* C4: the Dataset Builder's memo is keyed by the script content: a call with
\* a content seen before returns the earlier result without rebuilding, and a
\* call with a content seen in no earlier call runs the builder on that content.
C4_MemoKeyedByScript ==
  \A i \in 1..Len(builder_log) :
    LET e == builder_log[i]
        earlier == {j \in 1..(i - 1) : builder_log[j].arg = e.arg}
    IN  IF earlier = {}
        THEN /\ e.ran
             /\ (e.arg # None /\ executescript(e.arg).ok) =>
                  (e.ret # NoConn /\ stores[e.ret].script = e.arg)
        ELSE /\ ~e.ran
             /\ \A j \in earlier : builder_log[j].ret = e.ret

\* C5: the cleaned dataset has no null in discount, unit price, category and
\* product name, and has the input's rows, as many and in the same order.
C5_NoNullsSameRows ==
  Cleaned =>
    /\ Len(df_limpo.rows) = Len(df_bruto.rows)
    /\ \A i \in Rows :
         /\ Limpo(i).id_venda = Bruto(i).id_venda
         /\ ~IsNull(Limpo(i).desconto)
         /\ ~IsNull(Limpo(i).preco_unitario)
         /\ ~IsNull(Limpo(i).categoria)
         /\ ~IsNull(Limpo(i).nome_produto)

C5_Witness ==
  /\ Cleaned
  /\ Len(df_limpo.rows) >= 3
  /\ \E i \in Rows : IsNull(Bruto(i).desconto)
  /\ \E i \in Rows : IsNull(Bruto(i).preco_unitario) /\ ~IsNull(Bruto(i).nome_produto)
  /\ \E i \in Rows : IsNull(Bruto(i).categoria) /\ ~IsNull(Bruto(i).nome_produto)
  /\ \E i \in Rows : IsNull(Bruto(i).nome_produto)

\* C6: every cleaned row's total is quantity x (unit price - discount) with a
\* null price or discount replaced by 0, whatever total the query computed, and
\* the total revenue is the sum of these totals.
C6_TotalIsQtyTimesPriceMinusDiscount ==
  /\ Cleaned => \A i \in Rows : Limpo(i).valor_total = Cell(ExpectedTotal(Bruto(i)))
  /\ Computed =>
       metricas.total_faturamento = SeqSum([i \in Rows |-> ExpectedTotal(Bruto(i))])

C6_Witness ==
  /\ Computed
  /\ \E i \in Rows :
       /\ Bruto(i).quantidade = Cell(2)
       /\ Bruto(i).preco_unitario = Cell(10)
       /\ IsNull(Bruto(i).desconto)
       /\ Limpo(i).desconto = Cell(0)
       /\ Limpo(i).valor_total = Cell(20)
  /\ \E i \in Rows : Limpo(i).valor_total # Bruto(i).valor_total
  /\ metricas.total_faturamento > 20

\* C7: revenue by category has exactly one row per distinct category of the
\* cleaned dataset, its totals add up to the total revenue, and its rows are in
\* descending order of total.
C7_RevenueByCategoryPartitions ==
  Computed =>
    LET t == metricas.faturamento_por_categoria
        cats == {Limpo(i).categoria : i \in Rows}
    IN  /\ {Cell(t[i].categoria) : i \in 1..Len(t)} = cats
        /\ Len(t) = Cardinality(cats)
        /\ SeqSum([i \in 1..Len(t) |-> t[i].valor_total]) = metricas.total_faturamento
        /\ \A i \in 1..Len(t) :
             t[i].valor_total =
               SeqSum([j \in Rows |-> IF Limpo(j).categoria = Cell(t[i].categoria)
                                      THEN Limpo(j).valor_total[1] ELSE 0])
        /\ Descending(t, "valor_total")

C7_Witness ==
  /\ Computed
  /\ Len(metricas.faturamento_por_categoria) >= 3
  /\ Len(metricas.faturamento_por_categoria) < Len(df_limpo.rows)
  /\ \E i \in 1..Len(metricas.faturamento_por_categoria) :
       metricas.faturamento_por_categoria[i].categoria = "Outros"
  /\ metricas.total_faturamento # 0

\* C8: the daily revenue series is in ascending order of date, has each
\* calendar date of the dataset exactly once and no other date, and each date's
\* value is the sum of the totals of the rows on that date.
C8_DailySeriesCoversDates ==
  Computed =>
    LET s == metricas.faturamento_por_dia
        dias == {Bruto(i).data_venda.dia : i \in Rows}
    IN  /\ \A i, j \in 1..Len(s) : i < j => s[i].data_venda < s[j].data_venda
        /\ {s[i].data_venda : i \in 1..Len(s)} = dias
        /\ \A i \in 1..Len(s) :
             s[i].valor_total =
               SeqSum([j \in Rows |-> IF Bruto(j).data_venda.dia = s[i].data_venda
                                      THEN Limpo(j).valor_total[1] ELSE 0])

C8_Witness ==
  /\ Computed
  /\ Len(metricas.faturamento_por_dia) >= 3
  /\ \E i, j \in Rows :
       /\ i < j
       /\ Bruto(i).data_venda.dia = Bruto(j).data_venda.dia
       /\ Bruto(i).data_venda.hora # Bruto(j).data_venda.hora
  /\ \E i, j \in Rows : i < j /\ Bruto(i).data_venda.dia > Bruto(j).data_venda.dia

\* The top table t ranks the groups keyed by keycol, whose ranking value is
\* Value[k]: min(5, number of groups) rows, one group each, in descending order,
\* and no group left out ranks strictly above one included.
IsTop(t, keycol, valcol, keys, Value) ==
  /\ Len(t) = Min(TopN, Cardinality(keys))
  /\ \A i \in 1..Len(t) : t[i][keycol] \in keys /\ t[i][valcol] = Value[t[i][keycol]]
  /\ \A i, j \in 1..Len(t) : i # j => t[i][keycol] # t[j][keycol]
  /\ Descending(t, valcol)
  /\ \A k \in keys \ {t[i][keycol] : i \in 1..Len(t)} :
       \A i \in 1..Len(t) : Value[k] <= t[i][valcol]

QuantityOf(nome) ==
  SeqSum([j \in Rows |-> IF Limpo(j).nome_produto = Cell(nome)
                         THEN Limpo(j).quantidade[1] ELSE 0])

RevenueOn(dia) ==
  SeqSum([j \in Rows |-> IF Bruto(j).data_venda.dia = dia
                         THEN Limpo(j).valor_total[1] ELSE 0])

\* C9: top products and top days have min(5, number of distinct products /
\* dates) rows, in descending order of summed quantity / daily total, and
\* nothing left out ranks strictly above something included.
C9_TopFive ==
  Computed =>
    /\ LET nomes == {Limpo(i).nome_produto[1] : i \in Rows}
       IN  IsTop(metricas.produtos_mais_vendidos, "nome_produto", "quantidade",
                 nomes, [n \in nomes |-> QuantityOf(n)])
    /\ LET dias == {Bruto(i).data_venda.dia : i \in Rows}
       IN  IsTop(metricas.dias_maior_venda, "data_venda", "valor_total",
                 dias, [d \in dias |-> RevenueOn(d)])

C9_Witness ==
  /\ Computed
  /\ Cardinality({Limpo(i).nome_produto : i \in Rows}) > TopN
  /\ Cardinality({Bruto(i).data_venda.dia : i \in Rows}) > TopN
  /\ Len(metricas.produtos_mais_vendidos) = TopN
  /\ Len(metricas.dias_maior_venda) = TopN

Closed(c) == c # NoConn /\ stores[c].state = "closed"

\* C10 as stated: a render that gets the connection an earlier render closed
\* cannot load the dataset.
C10_ClosedConnectionUnusable ==
  (Loaded /\ Closed(conn)) => df_bruto = EmptyDataFrame

\* C10, amended: once a successful render has closed the memoized connection,
\* every later render gets that same closed connection (no store is built
\* again); the Query Loader's memo, keyed by the query text alone, serves the
\* dataset of the first load without querying the connection, and the render
\* cleans it and computes the metrics again.
C10_ClosedConnectionServedFromMemo ==
  (\E c \in 1..Len(stores) : stores[c].state = "closed") =>
    /\ Len(stores) = 1
    /\ Built => conn = 1 /\ (renders > 1 => ~builder_log[Len(builder_log)].ran)
    /\ Loaded =>
         /\ df_bruto = [columns |-> Columns, rows |-> query_join(stores[1].tables)]
         /\ "load" \notin reported
    /\ (pc = "idle" \/ Computed) =>
         /\ df_limpo = tratar_dados(df_bruto)
         /\ metricas \in calcular_metricas(df_limpo)

C10_Witness ==
  /\ pc = "close"
  /\ Closed(conn)
  /\ renders >= 2
  /\ sql_script # stores[conn].script
  /\ Len(df_limpo.rows) > 0
  /\ metricas.total_faturamento # 0

====
